---- MODULE Spec2Model ----
(***************************************************************************)
(* Model of the appointments server (src/postgres.py): the three tables    *)
(* patients, appointment_types and agenda, and the tool handlers           *)
(* retrieve_data_date, retrieve_data_patient, retrieve_data_appointmentType,*)
(* get_agenda_by_id, get_week_summary, create_appointment and              *)
(* get_agenda_summary.                                                     *)
(*                                                                         *)
(* Representation of values                                                *)
(*   text that the code parses is kept as the fields the parser reads:     *)
(*     a "YYYY-MM-DD" string is [y, m, d], a "HH:MM" string is [h, m],     *)
(*     a patient number "P037" is the digit sequence <<0, 3, 7>> that      *)
(*     follows the letter P, a decimal string "12" is <<1, 2>>;            *)
(*   a datetime.date is its proleptic Gregorian ordinal (date.toordinal);  *)
(*   a datetime.time is its minute of the day;                             *)
(*   Python None / SQL NULL is NULL for text, NoDate / NoTime for a        *)
(*   missing date / time string, <<>> for a missing digit string and {}    *)
(*   for a nullable number ({n} when set).                                 *)
(***************************************************************************)
EXTENDS Integers, Sequences, FiniteSets, TLC

\* Number of create_appointment calls explored in one behaviour.
MaxBookings == 2

NULL == "NULL"
NoDate == [y |-> 0, m |-> 0, d |-> 0]
NoTime == [h |-> 0 - 1, m |-> 0 - 1]

(***************************************************************************)
(* Calendar: datetime.strptime(..., '%Y-%m-%d').date(), date + timedelta,  *)
(* date.strftime('%Y-%m-%d').                                              *)
(***************************************************************************)
IsLeap(y) == (y % 4 = 0 /\ y % 100 # 0) \/ y % 400 = 0

DaysInMonth(y, m) ==
    IF m = 2 THEN (IF IsLeap(y) THEN 29 ELSE 28)
    ELSE IF m \in {4, 6, 9, 11} THEN 30 ELSE 31

DaysBeforeYear(y) ==
    LET p == y - 1 IN p * 365 + (p \div 4) - (p \div 100) + (p \div 400)

RECURSIVE DaysBeforeMonth(_, _)
DaysBeforeMonth(y, m) ==
    IF m <= 1 THEN 0 ELSE DaysBeforeMonth(y, m - 1) + DaysInMonth(y, m - 1)

\* Years whose dates date.fromordinal is asked for in this model.
Years == 2024 .. 2027

\* strptime raises on a missing string (None), on a field out of range and on
\* a day the month does not have.
StrptimeDateOk(s) ==
    /\ s # NoDate
    /\ s.y >= 1
    /\ s.m \in 1 .. 12
    /\ s.d >= 1
    /\ s.d <= DaysInMonth(s.y, s.m)

ToOrdinal(s) == DaysBeforeYear(s.y) + DaysBeforeMonth(s.y, s.m) + s.d

FromOrdinal(n) ==
    LET y == CHOOSE yy \in Years :
                 DaysBeforeYear(yy) < n /\ n <= DaysBeforeYear(yy + 1)
        r == n - DaysBeforeYear(y)
        m == CHOOSE mm \in 1 .. 12 :
                 DaysBeforeMonth(y, mm) < r
                 /\ r <= DaysBeforeMonth(y, mm) + DaysInMonth(y, mm)
    IN  [y |-> y, m |-> m, d |-> r - DaysBeforeMonth(y, m)]

\* date.weekday(): Monday is 0.
Weekday(n) == (n + 6) % 7

(***************************************************************************)
(* Time of day: datetime.strptime(..., '%H:%M').time(), datetime.combine,  *)
(* datetime + timedelta(minutes), datetime.time().                         *)
(***************************************************************************)
StrptimeTimeOk(s) == s # NoTime /\ s.h \in 0 .. 23 /\ s.m \in 0 .. 59

MinuteOfDay(s) == s.h * 60 + s.m

\* datetime.combine(date, time): minutes since the start of ordinal day 0.
Combine(date, minute) == date * 1440 + minute

\* datetime.time(): the time of day of an instant, the date dropped.
TimeOf(instant) == instant % 1440

(***************************************************************************)
(* Digit strings: int(...), f"{n:03d}", and the text order of ORDER BY.    *)
(***************************************************************************)
RECURSIVE DigitsToInt(_)
DigitsToInt(ds) ==
    IF ds = <<>> THEN 0
    ELSE DigitsToInt(SubSeq(ds, 1, Len(ds) - 1)) * 10 + ds[Len(ds)]

RECURSIVE IntToDigits(_)
IntToDigits(n) ==
    IF n < 10 THEN <<n>> ELSE Append(IntToDigits(n \div 10), n % 10)

RECURSIVE ZeroPad(_, _)
ZeroPad(ds, width) ==
    IF Len(ds) >= width THEN ds ELSE ZeroPad(<<0>> \o ds, width)

\* Text comparison of two digit strings: the first differing character
\* decides, a proper prefix sorts first.
RECURSIVE TextLess(_, _)
TextLess(a, b) ==
    IF b = <<>> THEN FALSE
    ELSE IF a = <<>> THEN TRUE
    ELSE IF Head(a) # Head(b) THEN Head(a) < Head(b)
    ELSE TextLess(Tail(a), Tail(b))

(***************************************************************************)
(* State.  The tables are kept in insertion order.  The schema is not part *)
(* of the repository: whether patients.patient_number and agenda.id carry  *)
(* a UNIQUE / PRIMARY KEY constraint is fixed by the deployment            *)
(* (unique_ids), and appointment_types.appointment_number is filled by the *)
(* database from a sequence (appointment_number_seq).                      *)
(***************************************************************************)
VARIABLES patients, appointment_types, agenda, appointment_number_seq,
          conn, unique_ids, today, bookings, last, log, race

\* last is the answer of the call in progress, until the caller takes it;
\* log lists, for every booking that succeeded, the patient name asked for
\* and the patient number and agenda id it got (a history of the run);
\* race holds the bookings that server processes run side by side on the
\* one database (see "Concurrent bookings"), idle while the calls come one
\* at a time.
vars == <<patients, appointment_types, agenda, appointment_number_seq,
          conn, unique_ids, today, bookings, last, log, race>>

tables == <<patients, appointment_types, agenda>>

PatientNames == {"Ann", "Bob"}
TypeNames == {"General Consultation", "Checkup"}

Date(y, m, d) == [y |-> y, m |-> m, d |-> d]
Time(h, m) == [h |-> h, m |-> m]

PatientRow(number, name, address, phone) ==
    [patient_number |-> number, name |-> name,
     address |-> address, phonenumber |-> phone]

TypeRow(number, name, rate) ==
    [appointment_number |-> number, name |-> name, hourly_rate |-> rate]

AgendaRow(id, patient_number, type, date, start, end) ==
    [id |-> id, patient_number |-> patient_number, appointment_type |-> type,
     appointment_date |-> date, start_hour |-> start, end_hour |-> end]

\* Databases the server may be started on: an empty one, one in use (its
\* agenda rows not in date order), and one whose highest patient number is
\* P999.
Seeds ==
    { [patients |-> <<>>, appointment_types |-> <<>>, agenda |-> <<>>,
       seq |-> 1],
      [patients |-> <<PatientRow(<<0, 3, 7>>, "ann", "12 Main Street", "555")>>,
       appointment_types |-> <<TypeRow(1, "General Consultation", {80})>>,
       agenda |-> << AgendaRow(1, <<0, 3, 7>>, 1,
                               ToOrdinal(Date(2025, 7, 5)), 570, 600),
                     AgendaRow(2, <<0, 3, 7>>, 1,
                               ToOrdinal(Date(2025, 7, 2)), 840, 870) >>,
       seq |-> 2],
      [patients |-> <<PatientRow(<<9, 9, 9>>, "Zoe", NULL, NULL)>>,
       appointment_types |-> <<TypeRow(1, "General Consultation", {})>>,
       agenda |-> << AgendaRow(1, <<9, 9, 9>>, 1,
                               ToOrdinal(Date(2025, 7, 8)), 600, 630) >>,
       seq |-> 2] }

\* The day the server is started: the appointments of the seeds and of the
\* bookings lie ahead of it.
Todays == {ToOrdinal(Date(2025, 7, 1))}

NoCall == [op |-> "none"]

\* Two server processes, each with a connection of its own.
Sessions == {"s1", "s2"}

\* A process that has no create_appointment under way: pc is the statement
\* it executes next, the three tables hold the rows its transaction has
\* inserted, new_patient tells that the patient lookup found nothing, ok and
\* err are the outcome, the other fields are the locals of the handler.
IdleSession ==
    [pc |-> "idle",
     args |-> [patient_name |-> NULL, appointment_date |-> NoDate,
               appointment_type |-> NULL, start_time |-> NoTime,
               duration |-> 0, patient_address |-> NULL,
               patient_phone |-> NULL],
     patients |-> <<>>, appointment_types |-> <<>>, agenda |-> <<>>,
     last_patient_number |-> <<>>, patient_number |-> <<>>,
     appointment_number |-> 0, id_max |-> {}, id_record |-> 0,
     new_patient |-> FALSE, ok |-> FALSE, err |-> ""]

\* A process about to run the two counts that open get_agenda_summary.
IdleReader ==
    [pc |-> "count_agenda", total_appointments |-> 0, total_patients |-> 0]

Init ==
    /\ \E seed \in Seeds :
          /\ patients = seed.patients
          /\ appointment_types = seed.appointment_types
          /\ agenda = seed.agenda
          /\ appointment_number_seq = seed.seq
    /\ conn \in {"conn", NULL}
    /\ unique_ids \in BOOLEAN
    /\ today \in Todays
    /\ bookings = 0
    /\ last = NoCall
    /\ log = <<>>
    /\ race = [base |-> tables,
               sessions |-> [s \in Sessions |-> IdleSession],
               reader |-> IdleReader]

\* Mutant of NoConnection: the handle used without a look at it.
NoConnectionUnchecked == FALSE

\* `if conn is None`: the lifespan could not connect and handed on None.
NoConnection == conn = NULL

(***************************************************************************)
(* create_appointment                                                      *)
(***************************************************************************)
\* The statements of create_appointment at which the database may report an
\* error (a lost connection, a refused statement).
BookingStatements ==
    {"select_patient", "select_last_patient", "insert_patient",
     "select_type", "insert_type", "select_max_id", "insert_agenda"}

\* The state of one execution inside `async with conn.transaction()`: the
\* tables as the transaction sees them, the statements issued so far, the
\* step that raised ("" while none has) and the locals of the handler.
TxBegin ==
    [patients |-> patients, appointment_types |-> appointment_types,
     agenda |-> agenda, seq |-> appointment_number_seq,
     stmts |-> 0, err |-> "",
     patient_number |-> <<>>, appointment_number |-> 0,
     appointment_date |-> 0, start_dt |-> 0, end_dt |-> 0, row |-> <<>>]

Raise(st, step, issued) == [st EXCEPT !.err = step, !.stmts = @ + issued]

\* SELECT patient_number FROM patients order by patient_number desc limit 1
\* (<<>> when there is no row: fetchval returns None).
LastPatientNumber(tbl) ==
    IF tbl = <<>> THEN <<>>
    ELSE LET i == CHOOSE k \in DOMAIN tbl :
                     \A j \in DOMAIN tbl :
                        ~TextLess(tbl[k].patient_number, tbl[j].patient_number)
         IN  tbl[i].patient_number

\* Mutant of NextPatientNumber: the :03d padding dropped.
NextPatientNumberUnpadded(last_patient_number) ==
    IF last_patient_number = <<>> THEN <<0, 0, 1>>
    ELSE IntToDigits(DigitsToInt(last_patient_number) + 1)

\* "P001", or f"P{int(last_patient_number[1:]) + 1:03d}".
NextPatientNumber(last_patient_number) ==
    IF last_patient_number = <<>> THEN <<0, 0, 1>>
    ELSE ZeroPad(IntToDigits(DigitsToInt(last_patient_number) + 1), 3)

\* Mutant of FindPatient: the lookup never matches.
FindPatientNever(tbl, patient_name) == <<>>

\* SELECT patient_number FROM patients WHERE name = $1
FindPatient(tbl, patient_name) ==
    SelectSeq(tbl, LAMBDA r : r.name = patient_name)

\* Mutant of ResolvePatient: the address and the phone number of a patient
\* who is found are overwritten with those of the call.
ResolvePatientUpdatesContact(st, a, inject) ==
    IF inject = "select_patient" THEN Raise(st, "select_patient", 1)
    ELSE LET patient == FindPatient(st.patients, a.patient_name) IN
      IF patient # <<>>
      THEN [st EXCEPT
              !.stmts = @ + 1,
              !.patients = [i \in DOMAIN @ |->
                  IF @[i].name = a.patient_name
                  THEN PatientRow(@[i].patient_number, @[i].name,
                                  a.patient_address, a.patient_phone)
                  ELSE @[i]],
              !.patient_number = patient[1].patient_number]
      ELSE IF inject = "select_last_patient"
      THEN Raise(st, "select_last_patient", 2)
      ELSE LET number == NextPatientNumber(LastPatientNumber(st.patients)) IN
        IF \/ inject = "insert_patient"
           \/ /\ unique_ids
              /\ \E i \in DOMAIN st.patients :
                    st.patients[i].patient_number = number
        THEN Raise(st, "insert_patient", 3)
        ELSE [st EXCEPT
                !.stmts = @ + 3,
                !.patients = Append(@, PatientRow(number, a.patient_name,
                                 a.patient_address, a.patient_phone)),
                !.patient_number = number]

\* if not patient: ... INSERT INTO patients ...; else: the number found
ResolvePatient(st, a, inject) ==
    IF inject = "select_patient" THEN Raise(st, "select_patient", 1)
    ELSE LET patient == FindPatient(st.patients, a.patient_name) IN
      IF patient # <<>>
      THEN [st EXCEPT !.stmts = @ + 1,
                      !.patient_number = patient[1].patient_number]
      ELSE IF inject = "select_last_patient"
      THEN Raise(st, "select_last_patient", 2)
      ELSE LET number == NextPatientNumber(LastPatientNumber(st.patients)) IN
        IF \/ inject = "insert_patient"
           \/ /\ unique_ids
              /\ \E i \in DOMAIN st.patients :
                    st.patients[i].patient_number = number
        THEN Raise(st, "insert_patient", 3)
        ELSE [st EXCEPT
                !.stmts = @ + 3,
                !.patients = Append(@, PatientRow(number, a.patient_name,
                                 a.patient_address, a.patient_phone)),
                !.patient_number = number]

\* Mutant of FindType: the lookup never matches.
FindTypeNever(tbl, appointment_type) == <<>>

\* SELECT appointment_number FROM appointment_types WHERE name = $1
FindType(tbl, appointment_type) ==
    SelectSeq(tbl, LAMBDA r : r.name = appointment_type)

\* Mutant of ResolveType: a new type is given the appointment_number 1
\* whatever the table holds.
ResolveTypeNumberOne(st, a, inject) ==
    IF st.err # "" THEN st
    ELSE IF inject = "select_type" THEN Raise(st, "select_type", 1)
    ELSE LET appointment_type_record ==
                 FindType(st.appointment_types, a.appointment_type) IN
      IF appointment_type_record # <<>>
      THEN [st EXCEPT
              !.stmts = @ + 1,
              !.appointment_number =
                  appointment_type_record[1].appointment_number]
      ELSE IF inject = "insert_type" THEN Raise(st, "insert_type", 2)
      ELSE [st EXCEPT
              !.stmts = @ + 2,
              !.appointment_types =
                  Append(@, TypeRow(1, a.appointment_type, {})),
              !.appointment_number = 1]

\* if not appointment_type_record: INSERT INTO appointment_types (name)
\* ... RETURNING appointment_number, the number being the one the database
\* generates; else: the number found
ResolveType(st, a, inject) ==
    IF st.err # "" THEN st
    ELSE IF inject = "select_type" THEN Raise(st, "select_type", 1)
    ELSE LET appointment_type_record ==
                 FindType(st.appointment_types, a.appointment_type) IN
      IF appointment_type_record # <<>>
      THEN [st EXCEPT
              !.stmts = @ + 1,
              !.appointment_number =
                  appointment_type_record[1].appointment_number]
      ELSE IF inject = "insert_type" THEN Raise(st, "insert_type", 2)
      ELSE [st EXCEPT
              !.stmts = @ + 2,
              !.appointment_types =
                  Append(@, TypeRow(st.seq, a.appointment_type, {})),
              !.seq = @ + 1,
              !.appointment_number = st.seq]

FormatTimes(st, a) ==
    IF st.err # "" THEN st
    ELSE IF ~StrptimeDateOk(a.appointment_date) THEN Raise(st, "parse_date", 0)
    ELSE IF ~StrptimeTimeOk(a.start_time) THEN Raise(st, "parse_time", 0)
    ELSE LET appointment_date == ToOrdinal(a.appointment_date)
             start_dt == Combine(appointment_date, MinuteOfDay(a.start_time))
         IN  [st EXCEPT !.appointment_date = appointment_date,
                        !.start_dt = start_dt,
                        !.end_dt = start_dt + a.duration]

\* SELECT max(id) FROM agenda ({} when there is no row: max is NULL).
MaxId(tbl) ==
    IF tbl = <<>> THEN {}
    ELSE {CHOOSE m \in {tbl[i].id : i \in DOMAIN tbl} :
              \A i \in DOMAIN tbl : tbl[i].id <= m}

\* Mutant of NextAgendaId: the increment forgotten.
NextAgendaIdNoIncrement(id_max) ==
    IF id_max # {} /\ id_max # {0} THEN CHOOSE m \in id_max : TRUE ELSE 1

\* id_max + 1 if id_max else 1
NextAgendaId(id_max) ==
    IF id_max # {} /\ id_max # {0}
    THEN (CHOOSE m \in id_max : TRUE) + 1
    ELSE 1

\* The agenda row r and the interval from start to end on the given date
\* of the same patient are the same interval or share some time.
Overlaps(r, patient_number, date, start, end) ==
    /\ r.patient_number = patient_number
    /\ r.appointment_date = date
    /\ \/ r.start_hour = start /\ r.end_hour = end
       \/ r.start_hour < end /\ start < r.end_hour

\* Mutant of InsertAgenda: the insert is refused when the patient has an
\* appointment at that time.
InsertAgendaRefusesOverlap(st, a, inject) ==
    IF st.err # "" THEN st
    ELSE IF inject = "select_max_id" THEN Raise(st, "select_max_id", 1)
    ELSE LET id_record == NextAgendaId(MaxId(st.agenda))
             row == AgendaRow(id_record, st.patient_number,
                              st.appointment_number, st.appointment_date,
                              TimeOf(st.start_dt), TimeOf(st.end_dt))
         IN
      IF \/ inject = "insert_agenda"
         \/ /\ unique_ids
            /\ \E i \in DOMAIN st.agenda : st.agenda[i].id = id_record
         \/ \E i \in DOMAIN st.agenda :
               Overlaps(st.agenda[i], row.patient_number,
                        row.appointment_date, row.start_hour, row.end_hour)
      THEN Raise(st, "insert_agenda", 2)
      ELSE [st EXCEPT !.stmts = @ + 2,
                      !.agenda = Append(@, row),
                      !.row = <<row>>]

\* id_max, id_record, INSERT INTO agenda ... RETURNING *
InsertAgenda(st, a, inject) ==
    IF st.err # "" THEN st
    ELSE IF inject = "select_max_id" THEN Raise(st, "select_max_id", 1)
    ELSE LET id_record == NextAgendaId(MaxId(st.agenda))
             row == AgendaRow(id_record, st.patient_number,
                              st.appointment_number, st.appointment_date,
                              TimeOf(st.start_dt), TimeOf(st.end_dt))
         IN
      IF \/ inject = "insert_agenda"
         \/ /\ unique_ids
            /\ \E i \in DOMAIN st.agenda : st.agenda[i].id = id_record
      THEN Raise(st, "insert_agenda", 2)
      ELSE [st EXCEPT !.stmts = @ + 2,
                      !.agenda = Append(@, row),
                      !.row = <<row>>]

\* The body of the transaction, first statement to last.
Booking(a, inject) ==
    InsertAgenda(FormatTimes(ResolveType(ResolvePatient(TxBegin, a, inject),
                                         a, inject), a), a, inject)

\* Mutant of TxEnd: no transaction around the statements, what they wrote
\* stays when a later step raises.
TxEndKeepsPartial(st) ==
    [patients |-> st.patients,
     appointment_types |-> st.appointment_types, agenda |-> st.agenda]

\* Leaving `async with conn.transaction()`: commit when the body returned,
\* roll back to the tables as they were when it raised.
TxEnd(st) ==
    IF st.err = ""
    THEN [patients |-> st.patients,
          appointment_types |-> st.appointment_types, agenda |-> st.agenda]
    ELSE [patients |-> patients,
          appointment_types |-> appointment_types, agenda |-> agenda]

\* The arguments of one create_appointment call; the address is given, the
\* phone number is not.
BookingCall(patient_name, appointment_date, appointment_type, start_time, duration) ==
    [patient_name |-> patient_name, appointment_date |-> appointment_date,
     appointment_type |-> appointment_type, start_time |-> start_time,
     duration |-> duration, patient_address |-> "12 Main Street",
     patient_phone |-> NULL]

\* Bookings of 45 minutes at 09:30 for each name and type; one that runs
\* past midnight; those that a check of the arguments would refuse (a
\* negative duration, an empty patient name); one for Zoe
\* with an address and a phone number of its own, from 09:30 to 10:15 on a
\* day she may have an appointment from 10:00 to 10:30; and those whose
\* date or time is missing or is none (February 30th, 24:00).
BookingArgs ==
    {BookingCall(n, Date(2025, 7, 2), t, Time(9, 30), 45) :
        n \in PatientNames, t \in TypeNames}
    \cup {BookingCall("Ann", Date(2025, 7, 2), "Checkup", Time(23, 30), 45),
          BookingCall("Ann", Date(2025, 7, 2), "Checkup", Time(9, 30), 0 - 30),
          BookingCall("", Date(2025, 7, 2), "Checkup", Time(9, 30), 45),
          [BookingCall("Zoe", Date(2025, 7, 8), "Checkup", Time(9, 30), 45)
              EXCEPT !.patient_address = "7 Hill Road",
                     !.patient_phone = "556"]}
    \cup {BookingCall("Ann", d, "General Consultation", Time(9, 30), 45) :
             d \in {Date(2025, 2, 30), NoDate}}
    \cup {BookingCall("Ann", Date(2025, 7, 2), "General Consultation", t, 45) :
             t \in {Time(24, 0), NoTime}}

create_appointment(a, inject) ==
    /\ bookings < MaxBookings
    /\ bookings' = bookings + 1
    /\ IF NoConnection
       THEN /\ UNCHANGED <<patients, appointment_types, agenda,
                           appointment_number_seq>>
            /\ last' = [op |-> "create_appointment", args |-> a,
                        ok |-> FALSE, ret |-> <<>>, stmts |-> 0,
                        got_conn |-> TRUE, err |-> "conn", pre |-> tables]
            /\ log' = log
       ELSE LET st == Booking(a, inject) IN
            /\ patients' = TxEnd(st).patients
            /\ appointment_types' = TxEnd(st).appointment_types
            /\ agenda' = TxEnd(st).agenda
            /\ appointment_number_seq' = st.seq
            /\ last' = [op |-> "create_appointment", args |-> a,
                        ok |-> st.err = "", ret |-> st.row,
                        stmts |-> st.stmts, got_conn |-> TRUE,
                        err |-> st.err, pre |-> tables]
            /\ log' = IF st.err # "" THEN log
                      ELSE Append(log, [patient_name |-> a.patient_name,
                                        patient_number |-> st.patient_number,
                                        id |-> st.row[1].id])
    /\ UNCHANGED <<conn, unique_ids, today, race>>

(***************************************************************************)
(* The joined read queries.                                                *)
(***************************************************************************)
\* The row a LEFT JOIN supplies when no row of the joined table matches.
NullPatient == PatientRow(<<>>, NULL, NULL, NULL)
NullType == TypeRow(0, NULL, {})

\* agenda as t1 LEFT JOIN patients as t2 ON t1.patient_number =
\* t2.patient_number LEFT JOIN appointment_types as t3 ON t1.appointment_type
\* = t3.appointment_number, for one agenda row: one joined row per matching
\* pair (patient, type).
JoinOne(t1) ==
    LET ps == SelectSeq(patients,
                  LAMBDA r : r.patient_number = t1.patient_number)
        ts == SelectSeq(appointment_types,
                  LAMBDA r : r.appointment_number = t1.appointment_type)
        t2s == IF ps = <<>> THEN <<NullPatient>> ELSE ps
        t3s == IF ts = <<>> THEN <<NullType>> ELSE ts
    IN  [k \in 1 .. Len(t2s) * Len(t3s) |->
            [t1 |-> t1,
             t2 |-> t2s[((k - 1) \div Len(t3s)) + 1],
             t3 |-> t3s[((k - 1) % Len(t3s)) + 1]]]

RECURSIVE Join(_)
Join(rows) ==
    IF rows = <<>> THEN <<>> ELSE JoinOne(Head(rows)) \o Join(Tail(rows))

\* ORDER BY on the integer keys ks: ascending, rows of equal key in the
\* order the scan produced them.
OrderBy(rows, ks) ==
    IF rows = <<>> THEN <<>>
    ELSE LET pos(i) == Cardinality({j \in DOMAIN rows :
                           ks[j] < ks[i] \/ (ks[j] = ks[i] /\ j < i)}) + 1
         IN  [k \in DOMAIN rows |->
                 rows[CHOOSE i \in DOMAIN rows : pos(i) = k]]

\* LIMIT n
Limit(rows, n) == SubSeq(rows, 1, IF n < Len(rows) THEN n ELSE Len(rows))

\* lower(): the case folding ILIKE compares under.
Lower(text) ==
    CASE text = "Ann" -> "ann"
      [] text = "Bob" -> "bob"
      [] text = "Zoe" -> "zoe"
      [] text = "General Consultation" -> "general consultation"
      [] text = "Checkup" -> "checkup"
      [] text = "CHECKUP" -> "checkup"
      [] OTHER -> text

\* text ILIKE pattern, for a pattern without wildcard and for "%": NULL
\* matches nothing.
ILike(text, pattern) ==
    /\ text # NULL
    /\ pattern = "%" \/ Lower(text) = Lower(pattern)

\* The eight columns the filters select.
Selected(j) ==
    [patient_name |-> j.t2.name,
     address |-> j.t2.address,
     phonenumber |-> j.t2.phonenumber,
     appointment_date |-> j.t1.appointment_date,
     start_hour |-> j.t1.start_hour,
     end_hour |-> j.t1.end_hour,
     type_appointment |-> j.t3.name,
     hourly_rate |-> j.t3.hourly_rate]

SelectedRows(js) == [k \in DOMAIN js |-> Selected(js[k])]

\* Mutant of Failure: the exception swallowed and an empty answer handed
\* back as a success.
FailureAsEmptySuccess(op, a, issued, got_conn, err) ==
    [op |-> op, args |-> a, ok |-> TRUE, ret |-> <<>>, stmts |-> issued,
     got_conn |-> got_conn, err |-> err, pre |-> tables]

\* What a handler answers when it returns None: err names what made it
\* ("conn" the missing handle, "validation" a check of the arguments,
\* "parse_date" / "parse_time" / "bind" an exception raised on an argument,
\* "not_found" an empty result, otherwise the statement the database
\* refused), issued counts the statements sent, the refused one included.
Failure(op, a, issued, got_conn, err) ==
    [op |-> op, args |-> a, ok |-> FALSE, ret |-> <<>>, stmts |-> issued,
     got_conn |-> got_conn, err |-> err, pre |-> tables]

Success(op, a, result, issued) ==
    [op |-> op, args |-> a, ok |-> TRUE, ret |-> <<result>>, stmts |-> issued,
     got_conn |-> TRUE, err |-> "", pre |-> tables]

Reads(answer) ==
    /\ last' = answer
    /\ UNCHANGED <<patients, appointment_types, agenda,
                   appointment_number_seq, conn, unique_ids, today, bookings,
                   log, race>>

(***************************************************************************)
(* retrieve_data_date                                                      *)
(***************************************************************************)
DateRows(appointment_date_obj1, has_end, appointment_date_obj2, limit) ==
    LET js == Join(agenda)
        hit == IF ~has_end
               THEN SelectSeq(js, LAMBDA j :
                        j.t1.appointment_date = appointment_date_obj1)
               ELSE LET in == SelectSeq(js, LAMBDA j :
                            /\ j.t1.appointment_date >= appointment_date_obj1
                            /\ j.t1.appointment_date <= appointment_date_obj2)
                    IN  OrderBy(in, [k \in DOMAIN in |->
                                        in[k].t1.appointment_date])
    IN  SelectedRows(IF limit # 0 THEN Limit(hit, limit) ELSE hit)

RetrieveDataDate(a, inject) ==
    LET op == "retrieve_data_date"
        has_end == a.date_appointment_end # NoDate
        \* limit = int(limit) when a limit is given; 0 stands for None and
        \* for int("0"), which `if limit:` treats alike.
        limit == DigitsToInt(a.limit)
    IN
    IF NoConnection THEN Failure(op, a, 0, TRUE, "conn")
    ELSE IF ~StrptimeDateOk(a.date_appointment_start)
    THEN Failure(op, a, 0, TRUE, "parse_date")
    ELSE IF has_end /\ ~StrptimeDateOk(a.date_appointment_end)
    THEN Failure(op, a, 0, TRUE, "parse_date")
    ELSE IF inject = "fetch" THEN Failure(op, a, 1, TRUE, "fetch")
    ELSE LET appointments ==
                 DateRows(ToOrdinal(a.date_appointment_start), has_end,
                          IF has_end THEN ToOrdinal(a.date_appointment_end)
                          ELSE 0,
                          limit)
         IN  Success(op, a,
                 [status |-> "success",
                  count |-> Len(appointments),
                  date_start |-> a.date_appointment_start,
                  date_end |-> IF has_end THEN a.date_appointment_end
                               ELSE a.date_appointment_start,
                  appointments |-> appointments], 1)

\* Calls with a valid start date, and one call each with the start date
\* missing and with an end date no calendar has.
DateArgs ==
    [date_appointment_start : {Date(2025, 7, 2), Date(2025, 7, 6)},
     date_appointment_end : {NoDate, Date(2025, 7, 5), Date(2025, 7, 31)},
     limit : {<<>>, <<1>>, <<0>>}]
    \cup [date_appointment_start : {NoDate},
          date_appointment_end : {Date(2025, 7, 5)}, limit : {<<>>}]
    \cup [date_appointment_start : {Date(2025, 7, 2)},
          date_appointment_end : {Date(2025, 2, 30)}, limit : {<<>>}]

retrieve_data_date(a, inject) == Reads(RetrieveDataDate(a, inject))

(***************************************************************************)
(* retrieve_data_patient                                                   *)
(***************************************************************************)
\* Mutant of NoDiscriminator: the check left out.
NoDiscriminatorUnchecked(name, number) == FALSE

\* `not name and not number`: neither discriminator was supplied.
NoDiscriminator(name, number) == name = NULL /\ number = <<>>

RetrieveDataPatient(a, inject) ==
    LET op == "retrieve_data_patient" IN
    IF NoDiscriminator(a.patient_name, a.patient_number)
    THEN Failure(op, a, 0, FALSE, "validation")
    ELSE IF NoConnection THEN Failure(op, a, 0, TRUE, "conn")
    ELSE IF inject = "fetch" THEN Failure(op, a, 1, TRUE, "fetch")
    ELSE LET js == Join(agenda)
             hit == IF a.patient_number # <<>>
                    THEN SelectSeq(js, LAMBDA j :
                             j.t1.patient_number = a.patient_number)
                    ELSE SelectSeq(js, LAMBDA j :
                             ILike(j.t2.name, a.patient_name))
             appointments == SelectedRows(hit)
         IN  Success(op, a,
                 [status |-> "success",
                  count |-> Len(appointments),
                  patient_name |-> a.patient_name,
                  patient_number |-> a.patient_number,
                  appointments |-> appointments], 1)

PatientArgs ==
    [patient_name : {NULL, "ANN", "Bob"},
     patient_number : {<<>>, <<0, 3, 7>>, <<1, 0, 0, 0>>}]

retrieve_data_patient(a, inject) == Reads(RetrieveDataPatient(a, inject))

(***************************************************************************)
(* retrieve_data_appointmentType                                           *)
(***************************************************************************)
\* appointment_number and limit reach conn.fetch as the strings the caller
\* gave; the arguments they bind (agenda.appointment_type, LIMIT) are
\* integers, and asyncpg refuses a str for an integer argument (DataError).
RetrieveDataAppointmentType(a, inject) ==
    LET op == "retrieve_data_appointmentType" IN
    IF NoDiscriminator(a.appointment_type, a.appointment_number)
    THEN Failure(op, a, 0, FALSE, "validation")
    ELSE IF NoConnection THEN Failure(op, a, 0, TRUE, "conn")
    ELSE IF inject = "fetch" THEN Failure(op, a, 1, TRUE, "fetch")
    ELSE IF a.appointment_number # <<>> \/ a.limit # <<>>
    THEN Failure(op, a, 1, TRUE, "bind")
    ELSE LET js == Join(agenda)
             hit == SelectSeq(js, LAMBDA j :
                        ILike(j.t3.name, a.appointment_type))
             appointments == SelectedRows(hit)
         IN  Success(op, a,
                 [status |-> "success",
                  count |-> Len(appointments),
                  appointment_type |-> a.appointment_type,
                  appointment_number |-> a.appointment_number,
                  appointments |-> appointments], 1)

TypeArgs ==
    [appointment_type : {NULL, "CHECKUP"},
     appointment_number : {<<>>, <<1>>},
     limit : {<<>>, <<1>>}]

retrieve_data_appointmentType(a, inject) ==
    Reads(RetrieveDataAppointmentType(a, inject))

(***************************************************************************)
(* get_agenda_by_id                                                        *)
(***************************************************************************)
GetAgendaById(id, inject) ==
    LET op == "get_agenda_by_id"
        a == [id |-> id]
    IN
    IF NoConnection THEN Failure(op, a, 0, TRUE, "conn")
    ELSE IF inject = "fetch" THEN Failure(op, a, 1, TRUE, "fetch")
    ELSE LET row == SelectSeq(Join(agenda), LAMBDA j : j.t1.id = id) IN
         IF row = <<>> THEN Failure(op, a, 1, TRUE, "not_found")
         ELSE Success(op, a, Selected(row[1]), 1)

AgendaIds == {1, 2, 9}

get_agenda_by_id(id, inject) == Reads(GetAgendaById(id, inject))

(***************************************************************************)
(* get_week_summary                                                        *)
(***************************************************************************)
\* date_trunc('week', make_date(year, 1, 1) + (week_number - 1) * '1 week'):
\* the Monday of the week that holds the day 7 * (week_number - 1) days
\* after January 1st.
WeekStartOf(year, week_number) ==
    LET day == ToOrdinal(Date(year, 1, 1)) + (week_number - 1) * 7
    IN  day - Weekday(day)

\* Mutant of WeekEnd: a window of eight days.
WeekEndSevenDaysLater(week_start) == week_start + 7

\* week_end = date_obj + timedelta(days=6); + '6 days'::interval
WeekEnd(week_start) == week_start + 6

\* The five columns get_week_summary selects.
WeekSelected(j) ==
    [patient_name |-> j.t2.name,
     appointment_date |-> j.t1.appointment_date,
     start_hour |-> j.t1.start_hour,
     end_hour |-> j.t1.end_hour,
     type_appointment |-> j.t3.name]

\* Mutant of WeekRows: the rows in the order of the scan, the ORDER BY left
\* out.
WeekRowsUnordered(week_start, week_end) ==
    LET in == SelectSeq(Join(agenda), LAMBDA j :
                  /\ j.t1.appointment_date >= week_start
                  /\ j.t1.appointment_date <= week_end)
    IN  [k \in DOMAIN in |-> WeekSelected(in[k])]

\* WHERE t1.appointment_date BETWEEN $1 AND $2
\* ORDER BY t1.appointment_date, t1.start_hour
WeekRows(week_start, week_end) ==
    LET in == SelectSeq(Join(agenda), LAMBDA j :
                  /\ j.t1.appointment_date >= week_start
                  /\ j.t1.appointment_date <= week_end)
        js == OrderBy(in, [k \in DOMAIN in |->
                  in[k].t1.appointment_date * 1440 + in[k].t1.start_hour])
    IN  [k \in DOMAIN js |-> WeekSelected(js[k])]

\* appointment_types: a dict of counts keyed by type name.
TypeCounts(appointments) ==
    [key \in {appointments[k].type_appointment : k \in DOMAIN appointments}
        |-> Cardinality({k \in DOMAIN appointments :
                            appointments[k].type_appointment = key})]

\* daily_counts: a dict of counts keyed by strftime('%Y-%m-%d').
DailyCounts(appointments) ==
    [key \in {FromOrdinal(appointments[k].appointment_date) :
                  k \in DOMAIN appointments}
        |-> Cardinality({k \in DOMAIN appointments :
                FromOrdinal(appointments[k].appointment_date) = key})]

WeekSummary(week_start, week_end, issued, a) ==
    LET appointments == WeekRows(week_start, week_end) IN
    Success("get_week_summary", a,
        [status |-> "success",
         week_start |-> FromOrdinal(week_start),
         week_end |-> FromOrdinal(week_end),
         total_appointments |-> Len(appointments),
         unique_patients |->
             Cardinality({appointments[k].patient_name :
                              k \in DOMAIN appointments}),
         appointment_types |-> TypeCounts(appointments),
         daily_counts |-> DailyCounts(appointments),
         appointments |-> appointments], issued)

\* Mutant of NoWindow: the current week taken when nothing is given.
NoWindowCurrentWeek(a) ==
    LET week_start == today - Weekday(today)
    IN  WeekSummary(week_start, WeekEnd(week_start), 1, a)

\* else: "Either date or week_number must be provided", return None
NoWindow(a) == Failure("get_week_summary", a, 0, TRUE, "validation")

GetWeekSummary(a, inject) ==
    LET op == "get_week_summary"
        year == IF a.year = {} THEN FromOrdinal(today).y
                ELSE CHOOSE y \in a.year : TRUE
    IN
    IF NoConnection THEN Failure(op, a, 0, TRUE, "conn")
    ELSE IF a.date # NoDate
    THEN IF ~StrptimeDateOk(a.date) THEN Failure(op, a, 0, TRUE, "parse_date")
         ELSE IF inject = "fetch" THEN Failure(op, a, 1, TRUE, "fetch")
         ELSE LET date_obj == ToOrdinal(a.date)
              IN  WeekSummary(date_obj, WeekEnd(date_obj), 1, a)
    ELSE IF a.week_number # {} /\ a.week_number # {0}
    THEN IF inject = "select_week"
         THEN Failure(op, a, 1, TRUE, "select_week")
         ELSE IF inject = "fetch" THEN Failure(op, a, 2, TRUE, "fetch")
         ELSE LET week_start ==
                      WeekStartOf(year, CHOOSE w \in a.week_number : TRUE)
              IN  WeekSummary(week_start, WeekEnd(week_start), 2, a)
    ELSE NoWindow(a)

\* Calls by date (weekdays other than Monday, windows that cross the end of
\* a month, of a leap February and of the year, a date no calendar has),
\* calls by week number (of 2025 and 2026, which begin on a Wednesday and a
\* Thursday, and of 2027, which begins on a Friday), and the call with
\* neither.
WeekArgs ==
    [date : {Date(2025, 7, 2), Date(2025, 7, 28), Date(2025, 12, 27),
             Date(2024, 2, 24), Date(2025, 2, 30)},
     week_number : {{}}, year : {{}}]
    \cup [date : {Date(2025, 7, 2)}, week_number : {{27}}, year : {{2026}}]
    \cup [date : {NoDate}, week_number : {{}, {0}, {27}}, year : {{}, {2026}}]
    \cup [date : {NoDate}, week_number : {{1}}, year : {{2027}}]

get_week_summary(a, inject) == Reads(GetWeekSummary(a, inject))

(***************************************************************************)
(* get_agenda_summary.  An average is kept in hundredths, 1.50 is {150},    *)
(* and a NULL average is {}.                                               *)
(***************************************************************************)
\* CURRENT_DATE - INTERVAL '12 months': the same day a year earlier, the
\* last day of the month when the month is shorter.
TwelveMonthsBefore(day) ==
    LET t == FromOrdinal(day)
        last_day == DaysInMonth(t.y - 1, t.m)
    IN  ToOrdinal(Date(t.y - 1, t.m, IF t.d < last_day THEN t.d ELSE last_day))

\* WHERE appointment_date >= cutoff
Since(cutoff) == SelectSeq(agenda, LAMBDA r : r.appointment_date >= cutoff)

\* ROUND(AVG(count), 2) over the groups of keys: the rows divided by the
\* groups, rounded half up to hundredths; {} (NULL) when there is no group.
RoundedAverage(keys) ==
    IF keys = <<>> THEN {}
    ELSE LET groups == Cardinality({keys[k] : k \in DOMAIN keys})
         IN  {(200 * Len(keys) + groups) \div (2 * groups)}

\* GROUP BY DATE(appointment_date), over the last 30 days
DailyAvg(current_date) ==
    LET rows == Since(current_date - 30)
    IN  RoundedAverage([k \in DOMAIN rows |-> rows[k].appointment_date])

\* GROUP BY DATE_TRUNC('week', appointment_date), over the last 12 weeks
WeeklyAvg(current_date) ==
    LET rows == Since(current_date - 84)
    IN  RoundedAverage([k \in DOMAIN rows |->
            rows[k].appointment_date - Weekday(rows[k].appointment_date)])

\* GROUP BY DATE_TRUNC('month', appointment_date), over the last 12 months
MonthlyAvg(current_date) ==
    LET rows == Since(TwelveMonthsBefore(current_date))
    IN  RoundedAverage([k \in DOMAIN rows |->
            LET t == FromOrdinal(rows[k].appointment_date)
            IN  t.y * 12 + t.m])

\* avg or 0
OrZero(avg) == IF avg = {} \/ avg = {0} THEN {0} ELSE avg

SummaryStatements ==
    <<"count_agenda", "count_patients", "daily_avg", "weekly_avg",
      "monthly_avg">>

\* CURRENT_DATE at the time of a summary call: the day the server started
\* or a later one, by which the appointments lie two months, half a year
\* and more than a year back.
CurrentDates ==
    Todays \cup {ToOrdinal(Date(2025, 9, 1)), ToOrdinal(Date(2026, 1, 15)),
                 ToOrdinal(Date(2026, 8, 1))}

GetAgendaSummary(current_date, inject) ==
    LET op == "get_agenda_summary"
        a == [current_date |-> current_date]
    IN
    IF NoConnection THEN Failure(op, a, 0, TRUE, "conn")
    ELSE IF \E k \in DOMAIN SummaryStatements : SummaryStatements[k] = inject
    THEN Failure(op, a,
             CHOOSE k \in DOMAIN SummaryStatements :
                 SummaryStatements[k] = inject,
             TRUE, inject)
    ELSE Success(op, a,
             [total_appointments |-> Len(agenda),
              total_patients |-> Len(patients),
              daily_average |-> OrZero(DailyAvg(current_date)),
              weekly_average |-> OrZero(WeeklyAvg(current_date)),
              monthly_average |-> OrZero(MonthlyAvg(current_date))], 5)

get_agenda_summary(current_date, inject) ==
    /\ current_date >= today
    /\ Reads(GetAgendaSummary(current_date, inject))

\* The caller takes the answer; the calls are synchronous, one at a time.
Return ==
    /\ last.op # "none"
    /\ last' = NoCall
    /\ UNCHANGED <<patients, appointment_types, agenda,
                   appointment_number_seq, conn, unique_ids, today, bookings,
                   log, race>>

Call ==
    \/ \E a \in BookingArgs, inject \in BookingStatements \cup {"none"} :
          create_appointment(a, inject)
    \/ \E a \in DateArgs, inject \in {"none", "fetch"} :
          retrieve_data_date(a, inject)
    \/ \E a \in PatientArgs, inject \in {"none", "fetch"} :
          retrieve_data_patient(a, inject)
    \/ \E a \in TypeArgs, inject \in {"none", "fetch"} :
          retrieve_data_appointmentType(a, inject)
    \/ \E id \in AgendaIds, inject \in {"none", "fetch"} :
          get_agenda_by_id(id, inject)
    \/ \E a \in WeekArgs, inject \in {"none", "select_week", "fetch"} :
          get_week_summary(a, inject)
    \/ \E current_date \in CurrentDates,
          inject \in {"none", "count_agenda", "monthly_avg"} :
          get_agenda_summary(current_date, inject)

\* The server handles one call at a time: a call is taken when the last
\* answer has been returned.
Next == (last.op = "none" /\ Call) \/ Return

Spec == Init /\ [][Next]_vars

(***************************************************************************)
(* Concurrent bookings.  Each server process holds one connection; two     *)
(* processes on the one database run create_appointment side by side, a    *)
(* third runs the counts of get_agenda_summary.  The statements of the     *)
(* processes interleave one by one.  The database isolates them as         *)
(* PostgreSQL does by default (READ COMMITTED): a statement sees the rows  *)
(* committed before it and the rows its own transaction inserted; an       *)
(* INSERT under a unique key that an open transaction has inserted waits   *)
(* for that transaction to end.                                            *)
(***************************************************************************)
\* The bookings the two processes are asked for.
RaceArgs ==
    {BookingCall(n, Date(2025, 7, 2), t, Time(9, 30), 45) :
        n \in PatientNames, t \in TypeNames}

InTransaction ==
    {"select_patient", "select_last_patient", "insert_patient", "select_type",
     "insert_type", "select_max_id", "insert_agenda", "commit"}

\* The tables as a statement of process s sees them.
View(s) ==
    [patients |-> patients \o race.sessions[s].patients,
     appointment_types |->
         appointment_types \o race.sessions[s].appointment_types,
     agenda |-> agenda \o race.sessions[s].agenda]

\* Mutant of SeenByOthers: no transaction, the row is there for all at once.
SeenByOthersAtOnce(tbl, row) == Append(tbl, row)

\* async with conn.transaction(): what the other processes see of a table
\* when a statement inside the transaction has inserted a row into it.
SeenByOthers(tbl, row) == tbl

\* Mutant of DuplicateKey: no unique constraint is ever applied.
DuplicateKeyIgnored(keys, key) == FALSE

\* The INSERT breaks a unique constraint: the key is among the committed
\* keys and the deployment has the constraint.
DuplicateKey(keys, key) == unique_ids /\ key \in keys

PatientNumbers(tbl) == {tbl[i].patient_number : i \in DOMAIN tbl}
AgendaIdsOf(tbl) == {tbl[i].id : i \in DOMAIN tbl}

Step(s, session) ==
    race' = [race EXCEPT !.sessions[s] = session]

Quiet ==
    UNCHANGED <<conn, unique_ids, today, bookings, last, log>>

\* The statement raised: the transaction is rolled back and the handler
\* returns None.  The rows stay in the record as what the booking had
\* inserted.
RolledBack(session, err) ==
    [session EXCEPT !.pc = "done", !.ok = FALSE, !.err = err]

\* A process takes a create_appointment call and opens the transaction.
Begin(s, a) ==
    /\ race.sessions[s].pc = "idle"
    /\ Step(s, [IdleSession EXCEPT !.pc = "select_patient", !.args = a])
    /\ UNCHANGED <<patients, appointment_types, agenda,
                   appointment_number_seq>>
    /\ Quiet

\* SELECT patient_number FROM patients WHERE name = $1
ExecSelectPatient(s) ==
    LET ss == race.sessions[s]
        patient == FindPatient(View(s).patients, ss.args.patient_name)
    IN
    /\ ss.pc = "select_patient"
    /\ Step(s, IF patient # <<>>
               THEN [ss EXCEPT !.pc = "select_type",
                               !.patient_number = patient[1].patient_number]
               ELSE [ss EXCEPT !.pc = "select_last_patient",
                               !.new_patient = TRUE])
    /\ UNCHANGED <<patients, appointment_types, agenda,
                   appointment_number_seq>>
    /\ Quiet

\* SELECT patient_number FROM patients order by patient_number desc limit 1
ExecSelectLastPatient(s) ==
    LET ss == race.sessions[s]
        last_patient_number == LastPatientNumber(View(s).patients)
    IN
    /\ ss.pc = "select_last_patient"
    /\ Step(s, [ss EXCEPT
                  !.pc = "insert_patient",
                  !.last_patient_number = last_patient_number,
                  !.patient_number = NextPatientNumber(last_patient_number)])
    /\ UNCHANGED <<patients, appointment_types, agenda,
                   appointment_number_seq>>
    /\ Quiet

\* INSERT INTO patients ... RETURNING patient_number
ExecInsertPatient(s) ==
    LET ss == race.sessions[s]
        row == PatientRow(ss.patient_number, ss.args.patient_name,
                          ss.args.patient_address, ss.args.patient_phone)
    IN
    /\ ss.pc = "insert_patient"
    /\ ~(/\ unique_ids
         /\ \E t \in Sessions \ {s} :
               /\ race.sessions[t].pc \in InTransaction
               /\ ss.patient_number
                      \in PatientNumbers(race.sessions[t].patients))
    /\ IF DuplicateKey(PatientNumbers(patients), ss.patient_number)
       THEN /\ Step(s, RolledBack(ss, "unique"))
            /\ UNCHANGED patients
       ELSE /\ Step(s, [ss EXCEPT !.pc = "select_type",
                                  !.patients = Append(@, row)])
            /\ patients' = SeenByOthers(patients, row)
    /\ UNCHANGED <<appointment_types, agenda, appointment_number_seq>>
    /\ Quiet

\* SELECT appointment_number FROM appointment_types WHERE name = $1
ExecSelectType(s) ==
    LET ss == race.sessions[s]
        appointment_type_record ==
            FindType(View(s).appointment_types, ss.args.appointment_type)
    IN
    /\ ss.pc = "select_type"
    /\ Step(s, IF appointment_type_record # <<>>
               THEN [ss EXCEPT
                       !.pc = "select_max_id",
                       !.appointment_number =
                           appointment_type_record[1].appointment_number]
               ELSE [ss EXCEPT !.pc = "insert_type"])
    /\ UNCHANGED <<patients, appointment_types, agenda,
                   appointment_number_seq>>
    /\ Quiet

\* INSERT INTO appointment_types (name) ... RETURNING appointment_number: the
\* number comes from the sequence, which no rollback sets back.
ExecInsertType(s) ==
    LET ss == race.sessions[s]
        row == TypeRow(appointment_number_seq, ss.args.appointment_type, {})
    IN
    /\ ss.pc = "insert_type"
    /\ Step(s, [ss EXCEPT !.pc = "select_max_id",
                          !.appointment_types = Append(@, row),
                          !.appointment_number = appointment_number_seq])
    /\ appointment_types' = SeenByOthers(appointment_types, row)
    /\ appointment_number_seq' = appointment_number_seq + 1
    /\ UNCHANGED <<patients, agenda>>
    /\ Quiet

\* SELECT max(id) as max_id FROM agenda, after the date and the times have
\* been formatted.
ExecSelectMaxId(s) ==
    LET ss == race.sessions[s]
        id_max == MaxId(View(s).agenda)
    IN
    /\ ss.pc = "select_max_id"
    /\ Step(s, IF \/ ~StrptimeDateOk(ss.args.appointment_date)
                  \/ ~StrptimeTimeOk(ss.args.start_time)
               THEN RolledBack(ss, "parse")
               ELSE [ss EXCEPT !.pc = "insert_agenda",
                               !.id_max = id_max,
                               !.id_record = NextAgendaId(id_max)])
    /\ UNCHANGED <<patients, appointment_types, agenda,
                   appointment_number_seq>>
    /\ Quiet

\* INSERT INTO agenda ... RETURNING *
ExecInsertAgenda(s) ==
    LET ss == race.sessions[s]
        appointment_date == ToOrdinal(ss.args.appointment_date)
        start_dt == Combine(appointment_date, MinuteOfDay(ss.args.start_time))
        end_dt == start_dt + ss.args.duration
        row == AgendaRow(ss.id_record, ss.patient_number,
                         ss.appointment_number, appointment_date,
                         TimeOf(start_dt), TimeOf(end_dt))
    IN
    /\ ss.pc = "insert_agenda"
    /\ ~(/\ unique_ids
         /\ \E t \in Sessions \ {s} :
               /\ race.sessions[t].pc \in InTransaction
               /\ ss.id_record \in AgendaIdsOf(race.sessions[t].agenda))
    /\ IF DuplicateKey(AgendaIdsOf(agenda), ss.id_record)
       THEN /\ Step(s, RolledBack(ss, "unique"))
            /\ UNCHANGED agenda
       ELSE /\ Step(s, [ss EXCEPT !.pc = "commit",
                                  !.agenda = Append(@, row)])
            /\ agenda' = SeenByOthers(agenda, row)
    /\ UNCHANGED <<patients, appointment_types, appointment_number_seq>>
    /\ Quiet

\* Leaving `async with conn.transaction()` after the last statement: the
\* rows of the transaction become the database's, all at once.
Commit(s) ==
    LET ss == race.sessions[s] IN
    /\ ss.pc = "commit"
    /\ Step(s, [ss EXCEPT !.pc = "done", !.ok = TRUE])
    /\ patients' = patients \o ss.patients
    /\ appointment_types' = appointment_types \o ss.appointment_types
    /\ agenda' = agenda \o ss.agenda
    /\ UNCHANGED appointment_number_seq
    /\ Quiet

\* The database refuses the statement a process is at (a lost connection, a
\* timeout): the transaction is rolled back.
Refuse(s) ==
    LET ss == race.sessions[s] IN
    /\ ss.pc \in InTransaction \ {"commit"}
    /\ Step(s, RolledBack(ss, "refused"))
    /\ UNCHANGED <<patients, appointment_types, agenda,
                   appointment_number_seq>>
    /\ Quiet

\* SELECT COUNT(*) FROM agenda
CountAgenda ==
    /\ race.reader.pc = "count_agenda"
    /\ race' = [race EXCEPT !.reader.pc = "count_patients",
                            !.reader.total_appointments = Len(agenda)]
    /\ UNCHANGED <<patients, appointment_types, agenda,
                   appointment_number_seq>>
    /\ Quiet

\* SELECT COUNT(*) FROM patients
CountPatients ==
    /\ race.reader.pc = "count_patients"
    /\ race' = [race EXCEPT !.reader.pc = "done",
                            !.reader.total_patients = Len(patients)]
    /\ UNCHANGED <<patients, appointment_types, agenda,
                   appointment_number_seq>>
    /\ Quiet

InitRace == Init /\ ~NoConnection

NextRace ==
    \/ \E s \in Sessions, a \in RaceArgs : Begin(s, a)
    \/ \E s \in Sessions : ExecSelectPatient(s)
    \/ \E s \in Sessions : ExecSelectLastPatient(s)
    \/ \E s \in Sessions : ExecInsertPatient(s)
    \/ \E s \in Sessions : ExecSelectType(s)
    \/ \E s \in Sessions : ExecInsertType(s)
    \/ \E s \in Sessions : ExecSelectMaxId(s)
    \/ \E s \in Sessions : ExecInsertAgenda(s)
    \/ \E s \in Sessions : Commit(s)
    \/ \E s \in Sessions : Refuse(s)
    \/ CountAgenda
    \/ CountPatients

SpecRace == InitRace /\ [][NextRace]_vars

(***************************************************************************)
(* Properties.  Each is a predicate on the answer of the call in progress  *)
(* (last), on the tables as they were when the call began (last.pre) and   *)
(* on the tables as they are now.                                          *)
(***************************************************************************)
Called(op) == last.op = op
Booked == Called("create_appointment") /\ last.ok
PrePatients == last.pre[1]
PreTypes == last.pre[2]
PreAgenda == last.pre[3]

NameKnown(tbl, name) == \E i \in DOMAIN tbl : tbl[i].name = name
SetMax(S) == CHOOSE m \in S : \A x \in S : x <= m
IsPrefix(old, new) ==
    Len(old) <= Len(new) /\ \A i \in DOMAIN old : new[i] = old[i]

\* C1: whenever create_appointment fails, at whatever step, the patients,
\* appointment_types and agenda tables are what they were before the call.
C1_FailedBookingLeavesTables ==
    (Called("create_appointment") /\ ~last.ok) => tables = last.pre

\* The agenda insert fails after the transaction has inserted a new patient
\* and a new appointment type.
C1_Witness ==
    /\ Called("create_appointment")
    /\ ~last.ok
    /\ last.err = "insert_agenda"
    /\ ~NameKnown(PrePatients, last.args.patient_name)
    /\ ~NameKnown(PreTypes, last.args.appointment_type)

\* C2: a successful create_appointment returns the agenda id max(id) + 1 of
\* the agenda table as it was before the call, or 1 when it was empty.
C2_ReturnedAgendaId ==
    Booked =>
        last.ret[1].id =
            IF PreAgenda = <<>> THEN 1
            ELSE SetMax({PreAgenda[i].id : i \in DOMAIN PreAgenda}) + 1

C2_Witness ==
    /\ Booked
    /\ Len(PreAgenda) = 2
    /\ last.ret[1].id = 3

\* C3: a successful create_appointment adds one patients row exactly when
\* the patient name matched no patient, one appointment_types row exactly
\* when the type name matched no type, and exactly one agenda row; the rows
\* that were there stay.
C3_RowsAdded ==
    Booked =>
        /\ IsPrefix(PrePatients, patients)
        /\ IsPrefix(PreTypes, appointment_types)
        /\ IsPrefix(PreAgenda, agenda)
        /\ Len(patients) = Len(PrePatients) +
               (IF NameKnown(PrePatients, last.args.patient_name)
                THEN 0 ELSE 1)
        /\ Len(appointment_types) = Len(PreTypes) +
               (IF NameKnown(PreTypes, last.args.appointment_type)
                THEN 0 ELSE 1)
        /\ Len(agenda) = Len(PreAgenda) + 1

\* A brand-new patient booked for a type that exists: one patient row, no
\* type row.
C3_Witness ==
    /\ Booked
    /\ ~NameKnown(PrePatients, last.args.patient_name)
    /\ NameKnown(PreTypes, last.args.appointment_type)
    /\ Len(patients) = Len(PrePatients) + 1
    /\ Len(appointment_types) = Len(PreTypes)

\* "P" and at least three digits, no zero in front of more than three.
IsZeroPadded3(ds) == Len(ds) >= 3 /\ (Len(ds) > 3 => ds[1] # 0)

\* C4: a new patient gets "P001" when the patients table was empty, and
\* otherwise "P" followed by the numeric suffix of the greatest
\* patient_number (greatest as the text column orders) plus one, zero-padded
\* to three digits.
C4_PatientNumberAllocation ==
    (Booked /\ ~NameKnown(PrePatients, last.args.patient_name)) =>
        LET new == patients[Len(patients)].patient_number IN
        /\ new = last.ret[1].patient_number
        /\ IF PrePatients = <<>> THEN new = <<0, 0, 1>>
           ELSE \E i \in DOMAIN PrePatients :
                   /\ \A j \in DOMAIN PrePatients :
                         ~TextLess(PrePatients[i].patient_number,
                                   PrePatients[j].patient_number)
                   /\ DigitsToInt(new) =
                          DigitsToInt(PrePatients[i].patient_number) + 1
                   /\ IsZeroPadded3(new)

\* The highest number was P037 and the new patient got P038.
C4_Witness ==
    /\ Booked
    /\ Len(PrePatients) = 1
    /\ PrePatients[1].patient_number = <<0, 3, 7>>
    /\ Len(patients) = 2
    /\ patients[2].patient_number = <<0, 3, 8>>

\* C5: patient numbers are pairwise distinct with numeric suffixes strictly
\* increasing in allocation order, and agenda ids are pairwise distinct and
\* strictly increasing in allocation order, for any number of patients.
C5_IdentifiersNeverReused ==
    /\ \A i, j \in DOMAIN patients :
          i < j => DigitsToInt(patients[i].patient_number)
                       < DigitsToInt(patients[j].patient_number)
    /\ \A i, j \in DOMAIN agenda : i < j => agenda[i].id < agenda[j].id

\* C6: the entry create_appointment stores for start_time S and duration D
\* has start_hour S and end_hour S + D minutes.
C6_EndHourIsStartPlusDuration ==
    Booked =>
        /\ last.ret[1].start_hour = MinuteOfDay(last.args.start_time)
        /\ last.ret[1].end_hour =
               MinuteOfDay(last.args.start_time) + last.args.duration

\* C7: bookings under the same exact patient name resolve to the same
\* patient number, and the patients table holds at most one row per exact
\* name.
C7_FindOrCreatePatientIdempotent ==
    /\ \A i, j \in DOMAIN log :
          log[i].patient_name = log[j].patient_name
              => log[i].patient_number = log[j].patient_number
    /\ \A i, j \in DOMAIN patients :
          patients[i].name = patients[j].name => i = j

\* Two bookings in a row for one name that was new at the first: one row.
C7_Witness ==
    /\ Booked
    /\ Len(log) = 2
    /\ log[1].patient_name = log[2].patient_name
    /\ log[1].patient_number = log[2].patient_number
    /\ Len(patients) = 1
    /\ patients[1].name = log[1].patient_name

\* C8: the patient filter called with neither patient_name nor
\* patient_number, and the type filter called with neither appointment_type
\* nor appointment_number, fail without a query and without touching the
\* connection.
C8_NoDiscriminatorNoQuery ==
    /\ (Called("retrieve_data_patient")
        /\ last.args.patient_name = NULL
        /\ last.args.patient_number = <<>>)
           => (~last.ok /\ last.stmts = 0 /\ ~last.got_conn)
    /\ (Called("retrieve_data_appointmentType")
        /\ last.args.appointment_type = NULL
        /\ last.args.appointment_number = <<>>)
           => (~last.ok /\ last.stmts = 0 /\ ~last.got_conn)

\* The type filter is called with a limit only, on a working connection.
C8_Witness ==
    /\ Called("retrieve_data_appointmentType")
    /\ conn # NULL
    /\ last.args.appointment_type = NULL
    /\ last.args.appointment_number = <<>>
    /\ last.args.limit # <<>>
    /\ ~last.ok

InRange(row, lo, hi) ==
    row.appointment_date >= lo /\ row.appointment_date <= hi

\* C9: retrieve_data_date (no limit given) returns exactly the agenda rows
\* dated in [start, end], ascending by date, or exactly those dated start
\* when no end is given; count is the number of rows returned.
C9_DateFilterExact ==
    (Called("retrieve_data_date") /\ last.ok /\ last.args.limit = <<>>) =>
        LET r == last.ret[1]
            rows == r.appointments
            lo == ToOrdinal(last.args.date_appointment_start)
            hi == IF last.args.date_appointment_end = NoDate THEN lo
                  ELSE ToOrdinal(last.args.date_appointment_end)
            matching == {i \in DOMAIN agenda : InRange(agenda[i], lo, hi)}
        IN  /\ r.count = Len(rows)
            /\ \A k \in DOMAIN rows : InRange(rows[k], lo, hi)
            /\ Len(rows) = Cardinality(matching)
            /\ \A i \in matching : \E k \in DOMAIN rows :
                  /\ rows[k].appointment_date = agenda[i].appointment_date
                  /\ rows[k].start_hour = agenda[i].start_hour
                  /\ rows[k].end_hour = agenda[i].end_hour
            /\ \A k \in DOMAIN rows :
                  k < Len(rows) => rows[k].appointment_date
                                       <= rows[k + 1].appointment_date

\* The day after a calendar date.
NextDay(s) ==
    IF s.d < DaysInMonth(s.y, s.m) THEN Date(s.y, s.m, s.d + 1)
    ELSE IF s.m < 12 THEN Date(s.y, s.m + 1, 1)
    ELSE Date(s.y + 1, 1, 1)

SixDaysAfter(s) == NextDay(NextDay(NextDay(NextDay(NextDay(NextDay(s))))))

\* Calendar order of two dates.
DateLeq(s, t) ==
    \/ s.y < t.y
    \/ s.y = t.y /\ s.m < t.m
    \/ s.y = t.y /\ s.m = t.m /\ s.d <= t.d

\* C10: get_week_summary called with a date D answers week_start = D and
\* week_end = D + 6 days, whatever the weekday of D, and every appointment
\* it returns is dated in [D, D + 6].
C10_WeekWindowFromDate ==
    (Called("get_week_summary") /\ last.ok /\ last.args.date # NoDate) =>
        LET r == last.ret[1] IN
        /\ r.week_start = last.args.date
        /\ r.week_end = SixDaysAfter(last.args.date)
        /\ \A k \in DOMAIN r.appointments :
              LET d == FromOrdinal(r.appointments[k].appointment_date) IN
              DateLeq(last.args.date, d)
              /\ DateLeq(d, SixDaysAfter(last.args.date))

\* The window of 2025-07-02 ends on 2025-07-08 and holds appointments.
C10_Witness ==
    /\ Called("get_week_summary")
    /\ last.ok
    /\ last.args.date = Date(2025, 7, 2)
    /\ last.ret[1].week_end = Date(2025, 7, 8)
    /\ last.ret[1].total_appointments >= 2

\* The agenda rows an average "over the last N days" is about: those dated
\* from the cutoff up to the current date.
InTrailingWindow(cutoff, current_date) ==
    {i \in DOMAIN agenda : /\ agenda[i].appointment_date >= cutoff
                           /\ agenda[i].appointment_date <= current_date}

\* The agenda rows the queries of get_agenda_summary select: those dated on
\* or after the cutoff, the ones after the current date included.
FromCutoff(cutoff) == {i \in DOMAIN agenda : agenda[i].appointment_date >= cutoff}

\* C11: get_agenda_summary answers the row counts of agenda and patients
\* and never a null average; an average whose trailing window (the last 30
\* days, 12 weeks, 12 months) holds no agenda row is 0.
C11_ZeroAverageForEmptyWindow ==
    (Called("get_agenda_summary") /\ last.ok) =>
        LET r == last.ret[1]
            now == last.args.current_date
        IN  /\ r.total_appointments = Len(agenda)
            /\ r.total_patients = Len(patients)
            /\ r.daily_average # {}
            /\ r.weekly_average # {}
            /\ r.monthly_average # {}
            /\ InTrailingWindow(now - 30, now) = {} => r.daily_average = {0}
            /\ InTrailingWindow(now - 84, now) = {} => r.weekly_average = {0}
            /\ InTrailingWindow(TwelveMonthsBefore(now), now) = {}
                  => r.monthly_average = {0}

\* What holds of the averages instead: none is null, and one is 0 exactly
\* when no agenda row is dated on or after its cutoff.
AverageZeroIffNoRowFromCutoff ==
    (Called("get_agenda_summary") /\ last.ok) =>
        LET r == last.ret[1]
            now == last.args.current_date
        IN  /\ r.total_appointments = Len(agenda)
            /\ r.total_patients = Len(patients)
            /\ r.daily_average # {}
            /\ r.weekly_average # {}
            /\ r.monthly_average # {}
            /\ r.daily_average = {0} <=> FromCutoff(now - 30) = {}
            /\ r.weekly_average = {0} <=> FromCutoff(now - 84) = {}
            /\ r.monthly_average = {0}
                  <=> FromCutoff(TwelveMonthsBefore(now)) = {}

\* A summary asked for when the agenda rows lie more than 30 days back and
\* less than 12 weeks: the daily average is 0, the weekly one is not.
EmptyDailyWindowReached ==
    /\ Called("get_agenda_summary")
    /\ last.ok
    /\ agenda # <<>>
    /\ last.ret[1].daily_average = {0}
    /\ last.ret[1].weekly_average # {0}

\* The statements a call sends when none is refused.
StatementsOf(answer) ==
    CASE answer.op = "create_appointment" ->
             (IF NameKnown(answer.pre[1], answer.args.patient_name)
              THEN 1 ELSE 3)
             + (IF NameKnown(answer.pre[2], answer.args.appointment_type)
                THEN 1 ELSE 2)
             + 2
      [] answer.op = "get_week_summary" ->
             IF answer.args.date # NoDate THEN 1 ELSE 2
      [] answer.op = "get_agenda_summary" -> 5
      [] OTHER -> 1

\* A date or time string of the call that strptime does not take.
MalformedInput(answer) ==
    CASE answer.op = "create_appointment" ->
             \/ ~StrptimeDateOk(answer.args.appointment_date)
             \/ ~StrptimeTimeOk(answer.args.start_time)
      [] answer.op = "retrieve_data_date" ->
             \/ ~StrptimeDateOk(answer.args.date_appointment_start)
             \/ /\ answer.args.date_appointment_end # NoDate
                /\ ~StrptimeDateOk(answer.args.date_appointment_end)
      [] answer.op = "get_week_summary" ->
             answer.args.date # NoDate /\ ~StrptimeDateOk(answer.args.date)
      [] OTHER -> FALSE

C13_NonPositiveDurationRejected ==
    (Called("create_appointment") /\ last.args.duration <= 0) =>
        (~last.ok /\ tables = last.pre)

\* C14: create_appointment called with an empty patient_name fails and
\* leaves the three tables as they were.
C14_EmptyNameRejected ==
    (Called("create_appointment") /\ last.args.patient_name = "") =>
        (~last.ok /\ tables = last.pre)

\* C15: get_week_summary called with neither date nor week_number fails,
\* and no statement (the appointments query least of all) is sent.
C15_NoWindowNoQuery ==
    (/\ Called("get_week_summary")
     /\ last.args.date = NoDate
     /\ last.args.week_number = {})
        => (~last.ok /\ last.stmts = 0)

\* The call names a year only, on a working connection over an agenda that
\* has rows.
C15_Witness ==
    /\ Called("get_week_summary")
    /\ conn # NULL
    /\ agenda # <<>>
    /\ last.args.date = NoDate
    /\ last.args.week_number = {}
    /\ last.args.year # {}
    /\ last.err = "validation"

\* C16: while the database handle is None every operation answers a
\* failure, sends no statement and leaves the three tables as they were.
C16_NoConnectionNoStatement ==
    (last.op # "none" /\ conn = NULL) =>
        (~last.ok /\ last.stmts = 0 /\ tables = last.pre)

\* A booking asked of a server that has no handle.
C16_Witness ==
    /\ conn = NULL
    /\ Called("create_appointment")
    /\ last.err = "conn"
    /\ agenda # <<>>

\* C17: when appointment_date or start_time is missing or unparsable,
\* create_appointment fails before it has sent any statement.
C17_ValidationBeforeStatements ==
    (/\ Called("create_appointment")
     /\ \/ ~StrptimeDateOk(last.args.appointment_date)
        \/ ~StrptimeTimeOk(last.args.start_time))
        => (~last.ok /\ last.stmts = 0)

(***************************************************************************)
(* Properties of concurrent bookings (SpecRace).                           *)
(***************************************************************************)
Finished(s) == race.sessions[s].pc = "done" /\ race.sessions[s].ok

\* Process s has read the last patient number and computed the next one.
AllocatedNumber(s) ==
    /\ race.sessions[s].new_patient
    /\ race.sessions[s].patient_number # <<>>

\* Process s has read max(id) and computed the next agenda id.
AllocatedId(s) == race.sessions[s].id_record > 0

\* C18: two bookings that run side by side for two brand-new patients can
\* read the same last patient number and compute the same patient_number,
\* and read the same max(id) and compute the same agenda id.  When they do,
\* a deployment without unique constraints ends with two rows under one
\* identifier, and one with them never lets both bookings succeed.
C18_AllocationRace ==
    \A s, t \in Sessions :
        s # t =>
            LET ss == race.sessions[s]
                tt == race.sessions[t]
            IN
            /\ (/\ AllocatedNumber(s) /\ AllocatedNumber(t)
                /\ ss.last_patient_number = tt.last_patient_number)
                   => ss.patient_number = tt.patient_number
            /\ (/\ AllocatedId(s) /\ AllocatedId(t)
                /\ ss.id_max = tt.id_max)
                   => ss.id_record = tt.id_record
            /\ (/\ Finished(s) /\ Finished(t)
                /\ ss.new_patient /\ tt.new_patient
                /\ ss.patient_number = tt.patient_number)
                   => /\ ~unique_ids
                      /\ Cardinality({i \in DOMAIN patients :
                             patients[i].patient_number = ss.patient_number})
                            >= 2
            /\ (Finished(s) /\ Finished(t) /\ ss.id_record = tt.id_record)
                   => /\ ~unique_ids
                      /\ Cardinality({i \in DOMAIN agenda :
                             agenda[i].id = ss.id_record}) >= 2

\* The silent duplicate: both bookings read P037 and max(id) = 2, both
\* succeeded, and Ann and Bob are both P038 with agenda id 3.
C18_Witness ==
    LET s1 == race.sessions["s1"]
        s2 == race.sessions["s2"]
    IN
    /\ Finished("s1") /\ Finished("s2")
    /\ s1.args.patient_name = "Ann" /\ s2.args.patient_name = "Bob"
    /\ s1.last_patient_number = <<0, 3, 7>>
    /\ s2.last_patient_number = <<0, 3, 7>>
    /\ s1.patient_number = <<0, 3, 8>> /\ s2.patient_number = <<0, 3, 8>>
    /\ s1.id_max = {2} /\ s2.id_max = {2}
    /\ s1.id_record = 3 /\ s2.id_record = 3
    /\ Len(patients) = 3
    /\ patients[2].patient_number = patients[3].patient_number
    /\ Len(agenda) = 4
    /\ agenda[3].id = agenda[4].id

\* The conflict: under unique constraints both bookings read P037, one
\* succeeded and the INSERT of the other was refused.
RaceConflictReached ==
    LET s1 == race.sessions["s1"]
        s2 == race.sessions["s2"]
    IN
    /\ unique_ids
    /\ Finished("s1")
    /\ s2.pc = "done" /\ ~s2.ok /\ s2.err = "unique"
    /\ s1.args.patient_name # s2.args.patient_name
    /\ s1.new_patient /\ s2.new_patient
    /\ s1.last_patient_number = <<0, 3, 7>>
    /\ s2.last_patient_number = <<0, 3, 7>>
    /\ s1.patient_number = s2.patient_number

\* The rows of the bookings in order, appended to the rows the database
\* began with.
RECURSIVE WithBookings(_, _)
WithBookings(tbls, order) ==
    IF order = <<>> THEN tbls
    ELSE LET ss == race.sessions[Head(order)] IN
         WithBookings(<<tbls[1] \o ss.patients,
                        tbls[2] \o ss.appointment_types,
                        tbls[3] \o ss.agenda>>, Tail(order))

\* The bookings taken in any number and order.
Orders == {<<>>, <<"s1">>, <<"s2">>, <<"s1", "s2">>, <<"s2", "s1">>}

\* C19: whatever a reader's statement finds in the database is the rows it
\* began with and, of each booking, either every row it inserted, the
\* agenda row among them, or none: no patient and no appointment type of a
\* booking is visible without the agenda row of that booking.
C19_NoHalfWrittenBooking ==
    \E order \in Orders :
        /\ tables = WithBookings(race.base, order)
        /\ \A k \in DOMAIN order : Len(race.sessions[order[k]].agenda) = 1

\* A booking has inserted a new patient and a new appointment type and not
\* yet its agenda row, while the reader is between its two counts.
C19_Witness ==
    /\ race.reader.pc = "count_patients"
    /\ \E s \in Sessions :
          /\ race.sessions[s].pc = "insert_agenda"
          /\ race.sessions[s].patients # <<>>
          /\ race.sessions[s].appointment_types # <<>>
    /\ tables = race.base

\* The two counts of one get_agenda_summary are two statements: a booking
\* that commits between them is counted in total_patients and not in
\* total_appointments.
CountsStraddleCommit ==
    /\ race.reader.pc = "done"
    /\ race.reader.total_appointments = Len(race.base[3])
    /\ race.reader.total_patients = Len(race.base[1]) + 1

(***************************************************************************)
(* Filters called with both discriminators                                 *)
(***************************************************************************)
\* Both discriminators of a filter call were supplied.
BothDiscriminators(name, number) == name # NULL /\ number # <<>>

\* C20: a patient filter called with patient_name and patient_number, and
\* a type filter called with appointment_type and appointment_number, is
\* rejected as a call with neither is: it fails and executes no statement.
C20_BothDiscriminatorsRejected ==
    /\ last.op = "retrieve_data_patient"
            /\ BothDiscriminators(last.args.patient_name,
                                  last.args.patient_number)
        => ~last.ok /\ last.stmts = 0
    /\ last.op = "retrieve_data_appointmentType"
            /\ BothDiscriminators(last.args.appointment_type,
                                  last.args.appointment_number)
        => ~last.ok /\ last.stmts = 0

\* A patient filter call with both discriminators has succeeded: it
\* selected by patient_number and returned appointments of a patient whose
\* name does not match patient_name.
BothDiscriminatorsAccepted ==
    /\ last.op = "retrieve_data_patient"
    /\ BothDiscriminators(last.args.patient_name, last.args.patient_number)
    /\ last.ok
    /\ last.stmts = 1
    /\ \E i \in DOMAIN last.ret[1].appointments :
          ~ILike(last.ret[1].appointments[i].patient_name,
                 last.args.patient_name)

(***************************************************************************)
(* Row limits                                                              *)
(***************************************************************************)
\* The call was refused for a reason that is not its limit: no connection,
\* a date that does not parse, no discriminator, or a failure of the
\* database itself.
RefusedApartFromLimit ==
    last.err \in {"conn", "parse_date", "validation", "fetch"}

\* C21: a date filter or a type filter called with a limit L >= 0, and not
\* refused for another reason, succeeds and returns at most L rows.
C21_LimitBoundsRows ==
    /\ last.op \in {"retrieve_data_date", "retrieve_data_appointmentType"}
    /\ last.args.limit # <<>>
    /\ ~RefusedApartFromLimit
    => /\ last.ok
       /\ Len(last.ret[1].appointments) <= DigitsToInt(last.args.limit)

\* The date filter with limit "0" has returned rows.
LimitZeroReturnsRows ==
    /\ last.op = "retrieve_data_date"
    /\ last.args.limit = <<0>>
    /\ last.ok
    /\ Len(last.ret[1].appointments) > 0

\* The type filter with a type name and limit "1" has failed at the
\* statement.
TypeLimitRefused ==
    /\ last.op = "retrieve_data_appointmentType"
    /\ last.args.appointment_number = <<>>
    /\ last.args.limit = <<1>>
    /\ ~last.ok
    /\ last.err = "bind"
    /\ last.stmts = 1

(***************************************************************************)
(* The window of a week number                                             *)
(***************************************************************************)
\* ISO 8601: week 1 of a year is the week, Monday to Sunday, that holds
\* January 4th; week W begins W - 1 weeks after the Monday of week 1.
IsoWeekStart(year, week_number) ==
    LET jan4 == ToOrdinal(Date(year, 1, 4))
    IN  jan4 - Weekday(jan4) + (week_number - 1) * 7

\* The year a get_week_summary call by week number is about.
YearOf(a) ==
    IF a.year = {} THEN FromOrdinal(today).y ELSE CHOOSE y \in a.year : TRUE

\* The call was made by week number alone and has succeeded.
ByWeekNumber ==
    /\ last.op = "get_week_summary"
    /\ last.ok
    /\ last.args.date = NoDate

\* C22: a successful get_week_summary by week number W of year Y has the
\* Monday of ISO week W of Y as week_start and the Sunday of that week as
\* week_end.
C22_IsoWeekWindow ==
    ByWeekNumber =>
        LET monday == IsoWeekStart(YearOf(last.args),
                          CHOOSE w \in last.args.week_number : TRUE)
        IN  /\ last.ret[1].week_start = FromOrdinal(monday)
            /\ last.ret[1].week_end = FromOrdinal(monday + 6)

\* In the years that begin on a Monday, Tuesday, Wednesday or Thursday the
\* window is that of the ISO week.
IsoWeekWindowJanuaryFirstToThursday ==
    ByWeekNumber /\ Weekday(ToOrdinal(Date(YearOf(last.args), 1, 1))) <= 3
    => LET monday == IsoWeekStart(YearOf(last.args),
                         CHOOSE w \in last.args.week_number : TRUE)
       IN  /\ last.ret[1].week_start = FromOrdinal(monday)
           /\ last.ret[1].week_end = FromOrdinal(monday + 6)

\* Week 1 of 2027, a year that begins on a Friday, was asked for and the
\* window returned is 2026-12-28 to 2027-01-03.
WeekOneOf2027 ==
    /\ ByWeekNumber
    /\ last.args.week_number = {1}
    /\ last.args.year = {2027}
    /\ last.ret[1].week_start = Date(2026, 12, 28)
    /\ last.ret[1].week_end = Date(2027, 1, 3)

\* A week of 2026 was asked for and the ISO window was returned.
IsoWeekOf2026 ==
    /\ ByWeekNumber
    /\ last.args.year = {2026}
    /\ last.ret[1].week_start = Date(2026, 6, 29)

(***************************************************************************)
(* The figures of a week summary                                           *)
(***************************************************************************)
\* The sum of the counts of a histogram.
RECURSIVE SumCounts(_)
SumCounts(histogram) ==
    IF DOMAIN histogram = {} THEN 0
    ELSE LET key == CHOOSE k \in DOMAIN histogram : TRUE
         IN  histogram[key]
             + SumCounts([k \in DOMAIN histogram \ {key} |-> histogram[k]])

\* C23: in a successful get_week_summary result total_appointments is the
\* number of rows returned, unique_patients the number of distinct patient
\* names among them, each histogram sums to total_appointments, every date
\* of the daily histogram lies in [week_start, week_end], and the rows are
\* in the order of appointment_date, then start_hour.
C23_WeekSummaryFigures ==
    last.op = "get_week_summary" /\ last.ok =>
        LET r == last.ret[1]
            rows == r.appointments
        IN  /\ r.total_appointments = Len(rows)
            /\ r.unique_patients =
                   Cardinality({rows[k].patient_name : k \in DOMAIN rows})
            /\ SumCounts(r.appointment_types) = r.total_appointments
            /\ SumCounts(r.daily_counts) = r.total_appointments
            /\ \A day \in DOMAIN r.daily_counts :
                   /\ ToOrdinal(r.week_start) <= ToOrdinal(day)
                   /\ ToOrdinal(day) <= ToOrdinal(r.week_end)
            /\ \A i, j \in DOMAIN rows :
                   i < j =>
                     \/ rows[i].appointment_date < rows[j].appointment_date
                     \/ /\ rows[i].appointment_date = rows[j].appointment_date
                        /\ rows[i].start_hour <= rows[j].start_hour

\* A week summary of three or more rows on two or more days, of two or
\* more patients and two or more types, from an agenda whose rows are not in
\* the order of their dates.
C23_Witness ==
    /\ last.op = "get_week_summary"
    /\ last.ok
    /\ last.ret[1].total_appointments >= 3
    /\ last.ret[1].unique_patients >= 2
    /\ Cardinality(DOMAIN last.ret[1].daily_counts) >= 2
    /\ Cardinality(DOMAIN last.ret[1].appointment_types) >= 2
    /\ \E i, j \in DOMAIN agenda :
          i < j /\ agenda[i].appointment_date > agenda[j].appointment_date

\* A week summary has returned some agenda rows and left out others, which
\* lie outside its window.
WeekSummaryLeavesRowsOut ==
    /\ last.op = "get_week_summary"
    /\ last.ok
    /\ last.ret[1].total_appointments >= 1
    /\ last.ret[1].total_appointments < Len(agenda)

(***************************************************************************)
(* The denominators of the rolling averages                                *)
(***************************************************************************)
\* The day, the week (its Monday) and the month of agenda row i.
DayOf(i) == agenda[i].appointment_date

WeekOf(i) == agenda[i].appointment_date - Weekday(agenda[i].appointment_date)

MonthOf(i) ==
    LET t == FromOrdinal(agenda[i].appointment_date) IN t.y * 12 + t.m

\* rows / buckets in hundredths, rounded half up; 0 when there is no bucket.
Mean(rows, buckets) ==
    IF buckets = 0 THEN {0} ELSE {(200 * rows + buckets) \div (2 * buckets)}

\* C24: each average of a successful get_agenda_summary is the number of
\* agenda rows dated within the trailing window (the 30 days, 12 weeks, 12
\* months up to the current date) divided by the number of distinct days,
\* weeks, months of those rows; a day, week or month without appointment
\* is not counted.
C24_AverageOverNonEmptyBuckets ==
    (Called("get_agenda_summary") /\ last.ok) =>
        LET r == last.ret[1]
            now == last.args.current_date
            days == InTrailingWindow(now - 30, now)
            weeks == InTrailingWindow(now - 84, now)
            months == InTrailingWindow(TwelveMonthsBefore(now), now)
        IN  /\ r.daily_average =
                   Mean(Cardinality(days),
                        Cardinality({DayOf(i) : i \in days}))
            /\ r.weekly_average =
                   Mean(Cardinality(weeks),
                        Cardinality({WeekOf(i) : i \in weeks}))
            /\ r.monthly_average =
                   Mean(Cardinality(months),
                        Cardinality({MonthOf(i) : i \in months}))

\* What holds of the averages: the same quotient over the rows dated on or
\* after the cutoff, those after the current date included.
AverageOverNonEmptyBucketsFromCutoff ==
    (Called("get_agenda_summary") /\ last.ok) =>
        LET r == last.ret[1]
            now == last.args.current_date
            days == FromCutoff(now - 30)
            weeks == FromCutoff(now - 84)
            months == FromCutoff(TwelveMonthsBefore(now))
        IN  /\ r.daily_average =
                   Mean(Cardinality(days),
                        Cardinality({DayOf(i) : i \in days}))
            /\ r.weekly_average =
                   Mean(Cardinality(weeks),
                        Cardinality({WeekOf(i) : i \in weeks}))
            /\ r.monthly_average =
                   Mean(Cardinality(months),
                        Cardinality({MonthOf(i) : i \in months}))

\* C24 holds of every summary asked for when no agenda row is dated after
\* the current date.
AverageOverNonEmptyBucketsWithoutFutureRows ==
    (/\ Called("get_agenda_summary")
     /\ \A i \in DOMAIN agenda :
           agenda[i].appointment_date <= last.args.current_date)
    => C24_AverageOverNonEmptyBuckets

\* Three appointments on two days, with days without appointment between
\* them: the daily average is 1.50 and the weekly one 3.00.
ThreeRowsOnTwoDays ==
    /\ Called("get_agenda_summary")
    /\ last.ok
    /\ last.ret[1].daily_average = {150}
    /\ last.ret[1].weekly_average = {300}

\* Rows of the past only, within the last 12 weeks: the weekly average is
\* that of the trailing window.
PastRowsAveraged ==
    /\ Called("get_agenda_summary")
    /\ last.ok
    /\ \A i \in DOMAIN agenda :
          agenda[i].appointment_date < last.args.current_date
    /\ last.ret[1].weekly_average = {300}

(***************************************************************************)
(* Rows are added, never changed                                           *)
(***************************************************************************)
ReadOperations ==
    {"retrieve_data_date", "retrieve_data_patient",
     "retrieve_data_appointmentType", "get_agenda_by_id", "get_week_summary",
     "get_agenda_summary"}

\* C25: every step leaves each row of the three tables as it is and where
\* it is: a read operation leaves the tables unchanged, create_appointment
\* only adds rows behind the existing ones.
C25_RowsNeverUpdatedOrDeleted ==
    [][/\ IsPrefix(patients, patients')
       /\ IsPrefix(appointment_types, appointment_types')
       /\ IsPrefix(agenda, agenda')
       /\ last'.op \in ReadOperations => tables' = tables]_vars

\* A booking has succeeded for a patient who was stored with another
\* address and another phone number than those of the call, and the
\* patients table is what it was.
C25_Witness ==
    /\ Called("create_appointment")
    /\ last.ok
    /\ \E i \in DOMAIN last.pre[1] :
          /\ last.pre[1][i].name = last.args.patient_name
          /\ last.pre[1][i].address # last.args.patient_address
          /\ last.pre[1][i].phonenumber # last.args.patient_phone
    /\ patients = last.pre[1]
    /\ Len(agenda) = Len(last.pre[3]) + 1

(***************************************************************************)
(* Appointment types                                                       *)
(***************************************************************************)
\* The appointment_number stored under a type name.
NumberOfType(tbl, name) ==
    tbl[CHOOSE i \in DOMAIN tbl : tbl[i].name = name].appointment_number

\* C26: a successful booking that names an existing type adds no type row
\* and stores that type's appointment_number in the agenda row; one that
\* names an unmatched type adds one row of that name, without hourly_rate,
\* and stores its number; at all times no two appointment_types rows have
\* the same name or the same appointment_number, and every agenda row
\* names the patient_number of a patient and the appointment_number of a
\* type.
C26_TypeFindOrCreate ==
    /\ Booked /\ NameKnown(PreTypes, last.args.appointment_type)
        => /\ appointment_types = PreTypes
           /\ last.ret[1].appointment_type =
                  NumberOfType(PreTypes, last.args.appointment_type)
    /\ Booked /\ ~NameKnown(PreTypes, last.args.appointment_type)
        => /\ Len(appointment_types) = Len(PreTypes) + 1
           /\ IsPrefix(PreTypes, appointment_types)
           /\ LET new == appointment_types[Len(appointment_types)]
              IN  /\ new.name = last.args.appointment_type
                  /\ new.hourly_rate = {}
                  /\ last.ret[1].appointment_type = new.appointment_number
    /\ \A i, j \in DOMAIN appointment_types :
          i # j => /\ appointment_types[i].name # appointment_types[j].name
                   /\ appointment_types[i].appointment_number
                          # appointment_types[j].appointment_number
    /\ \A k \in DOMAIN agenda :
          /\ \E i \in DOMAIN patients :
                patients[i].patient_number = agenda[k].patient_number
          /\ \E i \in DOMAIN appointment_types :
                appointment_types[i].appointment_number
                    = agenda[k].appointment_type

\* A second booking names a type the table does not hold, after a first
\* one was rolled back behind its type insert: the new type is stored
\* beside the existing one under a number of its own.
C26_Witness ==
    /\ Booked
    /\ PreTypes # <<>>
    /\ ~NameKnown(PreTypes, last.args.appointment_type)
    /\ Len(appointment_types) = Len(PreTypes) + 1
    /\ last.ret[1].appointment_type > Len(appointment_types)

\* A booking names a type that exists and reuses its number.
ExistingTypeReused ==
    /\ Booked
    /\ NameKnown(PreTypes, last.args.appointment_type)
    /\ appointment_types = PreTypes
    /\ Len(appointment_types) = 2

(***************************************************************************)
(* Not found and not executed                                              *)
(***************************************************************************)
\* What the caller of a handler receives: the value returned, <<>> being
\* None.
Returned(answer) == answer.ret

\* C27: what get_agenda_by_id returns for an id without agenda row differs
\* from what it returns for the same id when there is no connection and
\* when the database refuses the query.
C27_NotFoundDistinguishable ==
    Called("get_agenda_by_id") /\ last.err = "not_found" =>
        /\ Returned(last) # Returned(GetAgendaById(last.args.id, "fetch"))
        /\ Returned(last)
              # Returned(Failure("get_agenda_by_id", last.args, 0, TRUE,
                                "conn"))

\* The lookup of an id that no agenda row has, on an agenda with rows: the
\* query was executed and None is returned.
NotFoundReturnsNone ==
    /\ Called("get_agenda_by_id")
    /\ last.err = "not_found"
    /\ last.stmts = 1
    /\ agenda # <<>>
    /\ Returned(last) = <<>>

\* A lookup that finds its row returns it.
FoundReturnsRow ==
    /\ Called("get_agenda_by_id")
    /\ last.ok
    /\ Returned(last) # <<>>

(***************************************************************************)
(* Overlapping and repeated bookings                                       *)
(***************************************************************************)
\* The calls whose date and time parse.
WellFormedBookings ==
    {a \in BookingArgs :
        StrptimeDateOk(a.appointment_date) /\ StrptimeTimeOk(a.start_time)}

\* Patient a.patient_name has an agenda row that overlaps the appointment
\* the call a asks for.
HasOverlap(a, patient_rows, agenda_rows) ==
    \E p \in DOMAIN patient_rows, k \in DOMAIN agenda_rows :
        /\ patient_rows[p].name = a.patient_name
        /\ LET start == MinuteOfDay(a.start_time)
           IN  Overlaps(agenda_rows[k], patient_rows[p].patient_number,
                        ToOrdinal(a.appointment_date), start,
                        TimeOf(start + a.duration))

\* C28: between calls, with a connection and no failure of the database,
\* a booking for a patient who already has an agenda row on the same date
\* at the same or an overlapping time succeeds; every successful booking
\* of that kind has added one agenda row, under an id no row had, and left
\* the row it overlaps in place.
C28_OverlapAccepted ==
    /\ last.op = "none" /\ ~NoConnection =>
          \A a \in WellFormedBookings :
              HasOverlap(a, patients, agenda) =>
                  LET st == Booking(a, "none")
                  IN  /\ st.err = ""
                      /\ Len(TxEnd(st).agenda) = Len(agenda) + 1
    /\ Booked /\ HasOverlap(last.args, PrePatients, PreAgenda)
        => /\ IsPrefix(PreAgenda, agenda)
           /\ Len(agenda) = Len(PreAgenda) + 1
           /\ \A k \in DOMAIN PreAgenda :
                 PreAgenda[k].id # last.ret[1].id

\* The same call has succeeded twice: the agenda holds two rows that are
\* equal but for their ids, the later one just added.
C28_Witness ==
    /\ Booked
    /\ Len(agenda) = Len(PreAgenda) + 1
    /\ \E k \in DOMAIN PreAgenda :
          /\ [PreAgenda[k] EXCEPT !.id = 0] = [last.ret[1] EXCEPT !.id = 0]
          /\ PreAgenda[k].id # last.ret[1].id

\* A booking from 09:30 to 10:15 has succeeded for a patient who has an
\* appointment from 10:00 to 10:30 on that day.
PartialOverlapBooked ==
    /\ Booked
    /\ \E k \in DOMAIN PreAgenda :
          /\ PreAgenda[k].patient_number = last.ret[1].patient_number
          /\ PreAgenda[k].appointment_date = last.ret[1].appointment_date
          /\ last.ret[1].start_hour < PreAgenda[k].start_hour
          /\ PreAgenda[k].start_hour < last.ret[1].end_hour

====
